---- MODULE Spec2Model ----
(***************************************************************************)
(* Model of src/src/etl.py: the bookstore ETL pipeline.                    *)
(*                                                                         *)
(*   extract_data  -> transform_data -> load_data -> run_analytics         *)
(*                                                                         *)
(* A DataFrame is a record [cols, rows]: the set of its column names and   *)
(* the sequence of its rows, each row a function from cols to a cell.      *)
(* A cell of the CSV is a record [k, ...]: k = "na" is a missing value     *)
(* (an empty field, NaN), k = "bad" is text the column's parser rejects.   *)
(* Prices are integers (the smallest currency unit), so that the products  *)
(* and sums are exact.                                                     *)
(***************************************************************************)
EXTENDS Integers, Sequences, FiniteSets, TLC

VARIABLES
    pc,                \* position of main(): which stage comes next
    runs,              \* number of main() runs started
    raw_data,          \* main's raw_data (result of extract_data)
    transformed_data,  \* main's transformed_data (result of transform_data)
    book_sales,        \* the store's fact relation: [exists, rows]
    dim_books,         \* the store's dimension relation, committed:
                       \*   [schema, rows]
    dim_seq,           \* the SERIAL sequence behind dim_books.book_id
    autocommit,        \* does the connection of line 73 commit each statement
    unique_books,      \* load_data's unique_books (line 85)
    results,           \* run_analytics' results, in insertion order
    reads,             \* the relations run_analytics' queries have read
    outcome,           \* how the last finished run ended
    stages,            \* the stages the current run has completed, in order
    last_source,       \* the data the last run read, if that run succeeded
    rerun_of           \* when this run read the data the previous run read:
                       \*   the store as the previous run left it

vars == <<pc, runs, raw_data, transformed_data, book_sales, dim_books, dim_seq,
          autocommit, unique_books, results, reads, outcome, stages,
          last_source, rerun_of>>

-----------------------------------------------------------------------------
(* Bounds *)

MaxRuns == 2

MaxRows == 2

MaxRawRows == 2

MaxUnits == 2

-----------------------------------------------------------------------------
(* Cells and columns *)

NumCell(n) == [k |-> "num", v |-> n]
NaNum == [k |-> "na", v |-> 0]
BadNum == [k |-> "bad", v |-> 0]

DateCell(y, m, d) == [k |-> "date", y |-> y, m |-> m, d |-> d]
NaDate == [k |-> "na", y |-> 0, m |-> 0, d |-> 0]
BadDate == [k |-> "bad", y |-> 0, m |-> 0, d |-> 0]

\* text is a sequence of characters
TextCell(s) == [k |-> "text", s |-> s]
NaText == [k |-> "na", s |-> <<>>]

IsNa(cell) == cell.k = "na"

SourceColumns == {"date", "price", "units_sold", "rating", "category", "author", "title"}

DataFrame(cols, rows) == [cols |-> cols, rows |-> rows]

EmptyFrame == DataFrame({}, <<>>)

\* df[[...]] / dropping columns: keep the columns of keep in every row
Project(row, keep) == [c \in keep |-> row[c]]

-----------------------------------------------------------------------------
(* Calendar: what pd.to_datetime accepts and what .dt.month_name() and     *)
(* .dt.day_name() return                                                   *)

IsLeap(y) == (y % 4 = 0 /\ y % 100 # 0) \/ y % 400 = 0

DaysInMonth(y, m) ==
    IF m = 2 THEN (IF IsLeap(y) THEN 29 ELSE 28)
    ELSE IF m \in {4, 6, 9, 11} THEN 30 ELSE 31

ValidDate(y, m, d) == y >= 1 /\ m \in 1..12 /\ d >= 1 /\ d <= DaysInMonth(y, m)

RECURSIVE DaysBeforeMonth(_, _)
DaysBeforeMonth(y, m) ==
    IF m <= 1 THEN 0 ELSE DaysBeforeMonth(y, m - 1) + DaysInMonth(y, m - 1)

\* proleptic Gregorian ordinal, day 1 = 0001-01-01 (a Monday)
Ordinal(y, m, d) ==
    (y - 1) * 365 + ((y - 1) \div 4) - ((y - 1) \div 100) + ((y - 1) \div 400)
    + DaysBeforeMonth(y, m) + d

MonthNames == <<"January", "February", "March", "April", "May", "June", "July",
                "August", "September", "October", "November", "December">>

DayNames == <<"Monday", "Tuesday", "Wednesday", "Thursday", "Friday", "Saturday", "Sunday">>

month_name(date) == MonthNames[date[2]]

day_name(date) == DayNames[((Ordinal(date[1], date[2], date[3]) + 6) % 7) + 1]

\* dates order as timestamps do
DateLess(a, b) == Ordinal(a[1], a[2], a[3]) < Ordinal(b[1], b[2], b[3])

-----------------------------------------------------------------------------
(* Text: str.title() *)

UpperCase == [c \in {"a", "l", "s", "f", "p", "o", "t"} |->
                CASE c = "a" -> "A" [] c = "l" -> "L" [] c = "s" -> "S"
                  [] c = "f" -> "F" [] c = "p" -> "P" [] c = "o" -> "O"
                  [] c = "t" -> "T"]

LowerLetters == DOMAIN UpperCase

UpperLetters == {UpperCase[c] : c \in LowerLetters}

IsLetter(ch) == ch \in LowerLetters \cup UpperLetters

ToUpper(ch) == IF ch \in LowerLetters THEN UpperCase[ch] ELSE ch

ToLower(ch) ==
    IF ch \in UpperLetters THEN CHOOSE c \in LowerLetters : UpperCase[c] = ch ELSE ch

\* str.title(): a letter that follows a non-letter (or starts the string) is
\* upper-cased, every other letter is lower-cased
title(s) ==
    [i \in 1..Len(s) |->
        IF i = 1 \/ ~IsLetter(s[i - 1]) THEN ToUpper(s[i]) ELSE ToLower(s[i])]

-----------------------------------------------------------------------------
(* transform_data *)

\* pd.to_datetime(column), errors='raise': a missing value stays missing, a
\* well-formed calendar date parses, anything else raises
DateParses(cell) ==
    \/ cell.k = "na"
    \/ cell.k = "date" /\ ValidDate(cell.y, cell.m, cell.d)

\* pd.to_numeric(column), errors='raise'
NumParses(cell) == cell.k \in {"na", "num"}

\* does pd.to_datetime(df['date']) raise on some cell of the column
AnyBadDate(df) == \E i \in 1..Len(df.rows) : ~DateParses(df.rows[i]["date"])

\* does pd.to_numeric(df[col]) raise on some cell of the column
AnyBadNumber(df, col) == \E i \in 1..Len(df.rows) : ~NumParses(df.rows[i][col])

\* a text column of which every cell is missing is read as a column of
\* floats, on which .str raises AttributeError
NoText(df, col) == df.rows # <<>> /\ \A i \in 1..Len(df.rows) : IsNa(df.rows[i][col])

\* the first statement of transform_data that raises on df, "none" if none does
\* (df[col] raises KeyError when the column is absent)
TransformError(df) ==
    IF "date" \notin df.cols THEN "KeyError:date"
    ELSE IF AnyBadDate(df) THEN "ValueError:date"
    ELSE IF "price" \notin df.cols THEN "KeyError:price"
    ELSE IF AnyBadNumber(df, "price") THEN "ValueError:price"
    ELSE IF "units_sold" \notin df.cols THEN "KeyError:units_sold"
    ELSE IF AnyBadNumber(df, "units_sold") THEN "ValueError:units_sold"
    ELSE IF "rating" \notin df.cols THEN "KeyError:rating"
    ELSE IF AnyBadNumber(df, "rating") THEN "ValueError:rating"
    ELSE IF "category" \notin df.cols THEN "KeyError:category"
    ELSE IF NoText(df, "category") THEN "AttributeError:category"
    ELSE IF "author" \notin df.cols THEN "KeyError:author"
    ELSE IF NoText(df, "author") THEN "AttributeError:author"
    ELSE "none"

\* dropna(): a row stays when none of its cells is missing
HasNa(row) == \E c \in DOMAIN row : IsNa(row[c])

RECURSIVE dropna(_)
dropna(rows) ==
    IF rows = <<>> THEN <<>>
    ELSE IF HasNa(Head(rows)) THEN dropna(Tail(rows))
    ELSE <<Head(rows)>> \o dropna(Tail(rows))

\* price + units_sold in place of the product
RevenueSum(price, units_sold) == price + units_sold

\* the derived column of line 45
Revenue(price, units_sold) == price * units_sold

\* the value a surviving cell holds after the coercions of lines 35-38
CellValue(col, cell) ==
    IF col = "date" THEN <<cell.y, cell.m, cell.d>>
    ELSE IF col \in {"price", "units_sold", "rating"} THEN cell.v
    ELSE cell.s

\* lines 45-51 on one surviving row
Enrich(row) ==
    LET val(c) == CellValue(c, row[c])
    IN  [c \in (DOMAIN row) \cup {"revenue", "month", "day_of_week"} |->
            CASE c = "revenue" -> Revenue(val("price"), val("units_sold"))
              [] c = "month" -> month_name(val("date"))
              [] c = "day_of_week" -> day_name(val("date"))
              [] c \in {"category", "author"} -> title(val(c))
              [] OTHER -> val(c)]

\* the DataFrame transform_data returns when no statement raises
transform_data(df) ==
    LET kept == dropna(df.rows)
    IN  DataFrame(df.cols \cup {"revenue", "month", "day_of_week"},
                  [i \in 1..Len(kept) |-> Enrich(kept[i])])

-----------------------------------------------------------------------------
(* The store *)

\* book_sales before the first load
NoRelation == [exists |-> FALSE, cols |-> {}, rows |-> <<>>]

\* if_exists='append' in place of 'replace', for a frame of the relation's
\* columns
to_sql_append(df) ==
    [exists |-> TRUE, cols |-> df.cols,
     rows |-> IF book_sales.cols = df.cols THEN book_sales.rows \o df.rows ELSE df.rows]

\* df.to_sql(table_name, engine, if_exists='replace', index=False): the
\* relation is dropped and created again from the frame
to_sql(df) == [exists |-> TRUE, cols |-> df.cols, rows |-> df.rows]

\* the schema of dim_books: "absent"; "plain", as the CREATE TABLE of lines
\* 76-81 makes it (book_id is its only key); "unique", a relation provisioned
\* with a unique constraint on (title, author), which CREATE TABLE IF NOT
\* EXISTS leaves as it is
DimSchemas == {"absent", "plain", "unique"}

\* CREATE TABLE IF NOT EXISTS dim_books (...)
CreateIfNotExists(dim) == [dim EXCEPT !.schema = IF @ = "absent" THEN "plain" ELSE @]

BookColumns == {"title", "author", "category"}

\* a conflict target of (title, author, category)
SameTriple(row, book) ==
    /\ row["title"] = book["title"]
    /\ row["author"] = book["author"]
    /\ row["category"] = book["category"]

\* the arbiter of ON CONFLICT (title, author)
SameBook(row, book) == row["title"] = book["title"] /\ row["author"] = book["author"]

\* drop_duplicates(): is the row a duplicate of an earlier one
Duplicates(a, b) == a = b

RECURSIVE drop_duplicates(_)
\* the first occurrence of every row, in order
drop_duplicates(rows) ==
    IF rows = <<>> THEN <<>>
    ELSE LET before == drop_duplicates(SubSeq(rows, 1, Len(rows) - 1))
             last == rows[Len(rows)]
         IN  IF \E i \in 1..Len(before) : Duplicates(before[i], last)
             THEN before
             ELSE Append(before, last)

\* df[['title', 'author', 'category']].drop_duplicates()
UniqueBooks(df) ==
    drop_duplicates([i \in 1..Len(df.rows) |-> Project(df.rows[i], BookColumns)])

\* does INSERT ... ON CONFLICT (title, author) find its arbiter: PostgreSQL
\* rejects the statement when no unique index covers (title, author)
ConflictTargetExists(schema) == schema = "unique"

\* ON CONFLICT (title, author) DO UPDATE SET category = EXCLUDED.category
InsertOrUpdate(rows, id, book) ==
    IF \E i \in 1..Len(rows) : SameBook(rows[i], book)
    THEN [i \in 1..Len(rows) |->
            IF SameBook(rows[i], book)
            THEN [rows[i] EXCEPT !.category = book["category"]]
            ELSE rows[i]]
    ELSE Append(rows, [book_id |-> id, title |-> book["title"],
                       author |-> book["author"], category |-> book["category"]])

\* one INSERT ... ON CONFLICT (title, author) DO NOTHING that takes book_id
\* id from the sequence
InsertIfAbsent(rows, id, book) ==
    IF \E i \in 1..Len(rows) : SameBook(rows[i], book)
    THEN rows
    ELSE Append(rows, [book_id |-> id, title |-> book["title"],
                       author |-> book["author"], category |-> book["category"]])

RECURSIVE InsertBooks(_, _, _, _)
\* the rows after the first n iterations of the loop of line 86; every
\* statement draws a book_id, also one that then meets a conflict
InsertBooks(rows, seq, books, n) ==
    IF n = 0 THEN rows
    ELSE InsertIfAbsent(InsertBooks(rows, seq, books, n - 1), seq + n - 1, books[n])

-----------------------------------------------------------------------------
(* run_analytics *)

RECURSIVE SumOf(_, _)
\* SUM(col) over a set of row positions of a relation
SumOf(f, S) ==
    IF S = {} THEN 0
    ELSE LET i == CHOOSE x \in S : TRUE IN f[i] + SumOf(f, S \ {i})

Column(rows, col) == [i \in 1..Len(rows) |-> rows[i][col]]

\* the positions of the rows of one group
GroupOf(rows, col, key) == {i \in 1..Len(rows) : rows[i][col] = key}

GroupKeys(rows, col) == {rows[i][col] : i \in 1..Len(rows)}

\* SQL's SUM over no row is NULL
SqlNull == [null |-> TRUE, v |-> 0]
SqlNum(n) == [null |-> FALSE, v |-> n]

RECURSIVE SortedDesc(_, _)
\* every listing of the rows of S by field non-increasing: ORDER BY field DESC
\* leaves rows of equal field in any order
SortedDesc(S, field) ==
    IF S = {} THEN {<<>>}
    ELSE UNION {{<<g>> \o t : t \in SortedDesc(S \ {g}, field)} :
                    g \in {x \in S : \A y \in S : x[field] >= y[field]}}

RECURSIVE SortedByDate(_)
\* ORDER BY date: the group key, so no two rows are equal in it
SortedByDate(S) ==
    IF S = {} THEN <<>>
    ELSE LET g == CHOOSE x \in S : \A y \in S : ~DateLess(y["date"], x["date"])
         IN  <<g>> \o SortedByDate(S \ {g})

\* LIMIT n
Limit(seq, n) == SubSeq(seq, 1, IF Len(seq) < n THEN Len(seq) ELSE n)

TopLimit == 5

\* the dict with its entries in another order
QueriesReordered ==
    << [name |-> "top_selling_books", from |-> "book_sales"],
       [name |-> "total_revenue", from |-> "book_sales"],
       [name |-> "category_performance", from |-> "book_sales"],
       [name |-> "daily_sales_trend", from |-> "book_sales"] >>

\* the dict of lines 112-142, in insertion order, with each query's FROM
Queries ==
    << [name |-> "total_revenue", from |-> "book_sales"],
       [name |-> "top_selling_books", from |-> "book_sales"],
       [name |-> "category_performance", from |-> "book_sales"],
       [name |-> "daily_sales_trend", from |-> "book_sales"] >>

\* lines 113-116
total_revenue(rows) ==
    << [total_revenue |->
          IF rows = <<>> THEN SqlNull
          ELSE SqlNum(SumOf(Column(rows, "revenue"), 1..Len(rows)))] >>

TopSellingGroups(rows) ==
    { [title |-> t,
       total_units_sold |-> SumOf(Column(rows, "units_sold"), GroupOf(rows, "title", t)),
       total_revenue |-> SumOf(Column(rows, "revenue"), GroupOf(rows, "title", t))] :
      t \in GroupKeys(rows, "title") }

\* the query ordered by total_units_sold ascending
top_selling_ascending(rows) ==
    { Limit([i \in 1..Len(s) |-> s[Len(s) + 1 - i]], TopLimit) :
        s \in SortedDesc(TopSellingGroups(rows), "total_units_sold") }

\* lines 117-123: the results the query may return
top_selling_books(rows) ==
    {Limit(s, TopLimit) : s \in SortedDesc(TopSellingGroups(rows), "total_units_sold")}

CategoryGroups(rows) ==
    { [category |-> c,
       num_books |-> Cardinality(GroupOf(rows, "category", c)),
       total_units_sold |-> SumOf(Column(rows, "units_sold"), GroupOf(rows, "category", c)),
       total_revenue |-> SumOf(Column(rows, "revenue"), GroupOf(rows, "category", c)),
       \* AVG(rating), as the exact fraction sum / count
       avg_rating |-> <<SumOf(Column(rows, "rating"), GroupOf(rows, "category", c)),
                        Cardinality(GroupOf(rows, "category", c))>>] :
      c \in GroupKeys(rows, "category") }

\* lines 124-133: the results the query may return
category_performance(rows) == SortedDesc(CategoryGroups(rows), "total_revenue")

DailyGroups(rows) ==
    { [date |-> d,
       daily_units |-> SumOf(Column(rows, "units_sold"), GroupOf(rows, "date", d)),
       daily_revenue |-> SumOf(Column(rows, "revenue"), GroupOf(rows, "date", d))] :
      d \in GroupKeys(rows, "date") }

\* lines 134-141
daily_sales_trend(rows) == SortedByDate(DailyGroups(rows))

\* the columns the four queries name
QueryColumns == {"revenue", "title", "units_sold", "category", "rating", "date"}

\* can the queries run on the relation at all
Queryable(rel) == rel.exists /\ QueryColumns \subseteq rel.cols

-----------------------------------------------------------------------------
(* Inputs *)

T1 == <<"T", "1">>
T2 == <<"T", "2">>
T3 == <<"T", "3">>
T4 == <<"T", "4">>
T5 == <<"T", "5">>
T6 == <<"T", "6">>

Day1 == DateCell(2024, 1, 1)
Day2 == DateCell(2024, 1, 2)

RawRow(date, price, units_sold, rating, category, author, ttl) ==
    [date |-> date, price |-> price, units_sold |-> units_sold, rating |-> rating,
     category |-> category, author |-> author, title |-> ttl]

\* every sequence over S of at most n elements
BoundedSeq(S, n) == UNION {[1..k -> S] : k \in 0..n}

\* the frame pd.read_csv makes of a file with the given columns and rows
Frame(cols, rows) == DataFrame(cols, [i \in 1..Len(rows) |-> Project(rows[i], cols)])

\* rows of the files the pipeline runs on: a book; the same book with its
\* author in another case and in another category; a second book; and a row
\* of the second book without units_sold
PipelineRows ==
    { RawRow(Day1, NumCell(3), NumCell(2), NumCell(4), TextCell(<<"s", "f">>),
             TextCell(<<"a", "l">>), TextCell(T1)),
      RawRow(Day2, NumCell(5), NumCell(1), NumCell(5), TextCell(<<"p", "o">>),
             TextCell(<<"A", "L">>), TextCell(T1)),
      RawRow(Day1, NumCell(3), NumCell(2), NumCell(4), TextCell(<<"S", "F">>),
             TextCell(<<"a", "l">>), TextCell(T2)),
      RawRow(Day1, NumCell(3), NaNum, NumCell(4), TextCell(<<"p", "o">>),
             TextCell(<<"a", "l">>), TextCell(T2)) }

\* the columns a file may lack
MissingColumns == {{}, {"price"}, {"title"}}

Sources ==
    { Frame(SourceColumns \ missing, rows) :
        missing \in MissingColumns, rows \in BoundedSeq(PipelineRows, MaxRows) }

\* rows of the frames transform_data is applied to: two clean rows, and the
\* first of them with one cell missing or unparseable
CleanRow ==
    RawRow(Day1, NumCell(3), NumCell(2), NumCell(4), TextCell(<<"s", "f">>),
           TextCell(<<"a", "l">>), TextCell(T1))

TransformRows ==
    { CleanRow,
      RawRow(Day2, NumCell(5), NumCell(0), NumCell(3), TextCell(<<"p", "o">>),
             TextCell(<<"A", "L">>), TextCell(T2)) }
    \cup {[CleanRow EXCEPT !["date"] = c] : c \in {NaDate, BadDate, DateCell(2024, 2, 30)}}
    \cup {[CleanRow EXCEPT ![col] = c] :
            col \in {"price", "units_sold", "rating"}, c \in {NaNum, BadNum}}
    \cup {[CleanRow EXCEPT ![col] = NaText] : col \in {"category", "author", "title"}}

TransformSources ==
    { Frame(SourceColumns \ missing, rows) :
        missing \in {{}, {"rating"}}, rows \in BoundedSeq(TransformRows, MaxRawRows) }

\* files for the analytics: each of six titles absent or sold in 1..MaxUnits
\* units, and possibly a second sale of the first title
TitleList == <<T1, T2, T3, T4, T5, T6>>

RECURSIVE SalesRows(_, _)
\* the rows of the first n titles, units[i] = 0 leaving title i out
SalesRows(units, n) ==
    IF n = 0 THEN <<>>
    ELSE SalesRows(units, n - 1) \o
         (IF units[n] = 0 THEN <<>>
          ELSE << RawRow(Day1, NumCell(3), NumCell(units[n]), NumCell(4),
                         TextCell(<<"s", "f">>), TextCell(<<"a", "l">>),
                         TextCell(TitleList[n])) >>)

SecondSale ==
    RawRow(Day2, NumCell(5), NumCell(1), NumCell(2), TextCell(<<"p", "o">>),
           TextCell(<<"a", "l">>), TextCell(T1))

AnalyticsSources ==
    { Frame(SourceColumns, SalesRows(units, Len(TitleList)) \o extra) :
        units \in [1..Len(TitleList) -> 0..MaxUnits], extra \in {<<>>, <<SecondSale>>} }

-----------------------------------------------------------------------------
(* main *)

StageOrder == <<"extract", "transform", "fact_load", "dimension_load", "analytics">>

NotRun == [status |-> "none", stage |-> "none"]
Running == [status |-> "running", stage |-> "none"]
Succeeded == [status |-> "success", stage |-> "none"]
Failed(stage) == [status |-> "error", stage |-> stage]

EmptyDim == [schema |-> "absent", rows |-> <<>>]

NoSnapshot == [valid |-> FALSE, book_sales |-> NoRelation, dim_books |-> EmptyDim]

\* main is left, by its return or by an exception: its locals and those
\* of load_data are gone
Unwind ==
    /\ raw_data' = EmptyFrame
    /\ transformed_data' = EmptyFrame
    /\ unique_books' = <<>>

\* the except clause without its raise, main returning as after a success
RaiseAsSuccess(stage) ==
    /\ pc' = "idle"
    /\ outcome' = Succeeded
    /\ last_source' = raw_data
    /\ Unwind
    /\ UNCHANGED stages

\* the except clause without its raise, main going on to its next statement
RaiseAndContinue(stage) ==
    /\ pc' = IF stage = "analytics" THEN "idle" ELSE "analytics"
    /\ outcome' = IF stage = "analytics" THEN Succeeded ELSE outcome
    /\ UNCHANGED <<last_source, raw_data, transformed_data, unique_books, stages>>

\* an exception leaves the stage (the raise of lines 22 and 101) and, main
\* catching nothing, ends the run
Raise(stage) ==
    /\ pc' = "idle"
    /\ outcome' = Failed(stage)
    /\ last_source' = EmptyFrame
    /\ Unwind
    /\ UNCHANGED stages

\* the stage returns and main goes on to its next statement
Return(stage, next) ==
    /\ pc' = next
    /\ stages' = Append(stages, stage)
    /\ UNCHANGED <<outcome, last_source>>

\* line 168: main returns the results
ReturnResults(stage) ==
    /\ pc' = "idle"
    /\ stages' = Append(stages, stage)
    /\ outcome' = Succeeded
    /\ last_source' = raw_data
    /\ Unwind

\* what the connection of line 73 leaves in the store: a statement is
\* committed as it runs, or the block's work is rolled back when the
\* connection closes, no commit having been called
Commit(view) == IF autocommit THEN view ELSE dim_books

\* the store before the first run: no book_sales; dim_books absent, or
\* provisioned, empty, with the unique constraint on (title, author) that the
\* conflict target of line 90 names
Init ==
    /\ pc = "idle"
    /\ runs = 0
    /\ raw_data = EmptyFrame
    /\ transformed_data = EmptyFrame
    /\ book_sales = NoRelation
    /\ dim_books \in {[schema |-> sch, rows |-> <<>>] : sch \in {"absent", "unique"}}
    /\ dim_seq = 1
    /\ autocommit \in BOOLEAN
    /\ unique_books = <<>>
    /\ results = <<>>
    /\ reads = {}
    /\ outcome = NotRun
    /\ stages = <<>>
    /\ last_source = EmptyFrame
    /\ rerun_of = NoSnapshot

\* main, line 160: extract_data
extract_data ==
    /\ pc = "idle"
    /\ runs < MaxRuns
    /\ runs' = runs + 1
    /\ results' = <<>>
    /\ reads' = {}
    /\ last_source' = EmptyFrame
    /\ UNCHANGED <<transformed_data, unique_books, book_sales, dim_books, dim_seq,
                   autocommit>>
    /\ \/ \E src \in Sources :
            /\ raw_data' = src
            /\ rerun_of' = IF src = last_source
                           THEN [valid |-> TRUE, book_sales |-> book_sales,
                                 dim_books |-> dim_books]
                           ELSE NoSnapshot
            /\ pc' = "transform"
            /\ outcome' = Running
            /\ stages' = <<"extract">>
       \/ \* pd.read_csv raises
          /\ raw_data' = EmptyFrame
          /\ rerun_of' = NoSnapshot
          /\ pc' = "idle"
          /\ outcome' = Failed("extract")
          /\ stages' = <<>>

\* main, line 161: transform_data
Transform ==
    /\ pc = "transform"
    /\ UNCHANGED <<runs, book_sales, dim_books, dim_seq, autocommit, results, reads,
                   rerun_of>>
    /\ IF TransformError(raw_data) = "none"
       THEN /\ transformed_data' = transform_data(raw_data)
            /\ UNCHANGED <<raw_data, unique_books>>
            /\ Return("transform", "fact_load")
       ELSE Raise("transform")

\* load_data, line 69
load_data_facts ==
    /\ pc = "fact_load"
    /\ UNCHANGED <<runs, dim_books, dim_seq, autocommit, results, reads, rerun_of>>
    /\ \/ /\ book_sales' = to_sql(transformed_data)
          /\ UNCHANGED <<raw_data, transformed_data, unique_books>>
          /\ Return("fact_load", "dimension_load")
       \/ \* to_sql raises and its transaction is rolled back
          /\ book_sales' = book_sales
          /\ Raise("fact_load")
       \/ \* to_sql raises after the relation was dropped and created again
          /\ book_sales' = to_sql(DataFrame(transformed_data.cols, <<>>))
          /\ Raise("fact_load")

\* load_data, lines 73-97
load_data_dimension ==
    /\ pc = "dimension_load"
    /\ UNCHANGED <<runs, book_sales, autocommit, results, reads, rerun_of>>
    /\ LET df == transformed_data
           created == CreateIfNotExists(dim_books)
       IN  \/ \* engine.connect() or the CREATE TABLE raises
              /\ UNCHANGED <<dim_books, dim_seq>>
              /\ Raise("dimension_load")
           \/ \* line 85 raises KeyError
              /\ ~(BookColumns \subseteq df.cols)
              /\ dim_books' = Commit(created)
              /\ UNCHANGED dim_seq
              /\ Raise("dimension_load")
           \/ \* the first INSERT finds no arbiter for ON CONFLICT
              /\ BookColumns \subseteq df.cols
              /\ UniqueBooks(df) # <<>>
              /\ ~ConflictTargetExists(created.schema)
              /\ dim_books' = Commit(created)
              /\ UNCHANGED dim_seq
              /\ Raise("dimension_load")
           \/ \* n statements of the loop run; the next one, if any, raises
              /\ BookColumns \subseteq df.cols
              /\ UniqueBooks(df) = <<>> \/ ConflictTargetExists(created.schema)
              /\ \E n \in 0..Len(UniqueBooks(df)) :
                    /\ dim_seq' = dim_seq + n
                    /\ dim_books' = Commit([created EXCEPT !.rows =
                                        InsertBooks(@, dim_seq, UniqueBooks(df), n)])
                    /\ IF n = Len(UniqueBooks(df))
                       THEN /\ unique_books' = UniqueBooks(df)
                            /\ UNCHANGED <<raw_data, transformed_data>>
                            /\ Return("dimension_load", "analytics")
                       ELSE Raise("dimension_load")

\* the rows of one query of the dict, given the choice of the two queries
\* whose order SQL leaves open
QueryRows(name, rows, top, cat) ==
    CASE name = "total_revenue" -> total_revenue(rows)
      [] name = "top_selling_books" -> top
      [] name = "category_performance" -> cat
      [] name = "daily_sales_trend" -> daily_sales_trend(rows)

\* main, line 165: run_analytics
run_analytics ==
    /\ pc = "analytics"
    /\ UNCHANGED <<runs, book_sales, dim_books, dim_seq, autocommit, rerun_of>>
    /\ \/ /\ Queryable(book_sales)
          /\ \E top \in top_selling_books(book_sales.rows),
                cat \in category_performance(book_sales.rows) :
                results' = [i \in 1..Len(Queries) |->
                              [name |-> Queries[i].name,
                               rows |-> QueryRows(Queries[i].name, book_sales.rows, top, cat)]]
          /\ reads' = {Queries[i].from : i \in 1..Len(Queries)}
          /\ ReturnResults("analytics")
       \/ \* a query raises
          /\ results' = <<>>
          /\ reads' = {Queries[1].from}
          /\ Raise("analytics")

Next == extract_data \/ Transform \/ load_data_facts \/ load_data_dimension \/ run_analytics

Spec == Init /\ [][Next]_vars

\* transform_data on its own: main has extracted any of TransformSources
InitTransform ==
    /\ pc = "transform"
    /\ runs = 1
    /\ raw_data \in TransformSources
    /\ transformed_data = EmptyFrame
    /\ book_sales = NoRelation
    /\ dim_books \in {[schema |-> sch, rows |-> <<>>] : sch \in {"absent", "unique"}}
    /\ dim_seq = 1
    /\ autocommit \in BOOLEAN
    /\ unique_books = <<>>
    /\ results = <<>>
    /\ reads = {}
    /\ outcome = Running
    /\ stages = <<"extract">>
    /\ last_source = EmptyFrame
    /\ rerun_of = NoSnapshot

NextTransform == Transform

SpecTransform == InitTransform /\ [][NextTransform]_vars

\* run_analytics on its own: main has extracted, transformed and loaded any
\* of AnalyticsSources into a provisioned store
InitAnalytics ==
    /\ pc = "analytics"
    /\ runs = 1
    /\ raw_data \in AnalyticsSources
    /\ transformed_data = transform_data(raw_data)
    /\ book_sales = to_sql(transformed_data)
    /\ unique_books = UniqueBooks(transformed_data)
    /\ dim_books = [schema |-> "unique",
                    rows |-> InsertBooks(<<>>, 1, unique_books, Len(unique_books))]
    /\ dim_seq = 1 + Len(unique_books)
    /\ autocommit = TRUE
    /\ results = <<>>
    /\ reads = {}
    /\ outcome = Running
    /\ stages = <<"extract", "transform", "fact_load", "dimension_load">>
    /\ last_source = EmptyFrame
    /\ rerun_of = NoSnapshot

NextAnalytics == run_analytics

SpecAnalytics == InitAnalytics /\ [][NextAnalytics]_vars

-----------------------------------------------------------------------------
(* Properties *)

NaturalKey(row) == <<row["title"], row["author"]>>

RowsOf(rel) == {rel.rows[i] : i \in 1..Len(rel.rows)}

IsPrefix(s, t) == Len(s) <= Len(t) /\ \A i \in 1..Len(s) : s[i] = t[i]

\* C1: after any sequence of runs, with overlapping batches, dim_books never
\* holds two rows with the same (title, author)
C1_UniqueNaturalKey ==
    \A i, j \in 1..Len(dim_books.rows) :
        i # j => NaturalKey(dim_books.rows[i]) # NaturalKey(dim_books.rows[j])

\* a second run has met books the dimension already held: statements drew
\* more book_ids than there are rows
C1_Witness ==
    /\ runs >= 2
    /\ Len(dim_books.rows) >= 2
    /\ dim_seq - 1 > Len(dim_books.rows)

\* C2: a successful run on the data the previous successful run read leaves
\* book_sales and dim_books as that run left them
C2_RerunIdempotent ==
    (pc = "idle" /\ outcome = Succeeded /\ rerun_of.valid)
        => /\ book_sales = rerun_of.book_sales
           /\ dim_books = rerun_of.dim_books

C2_Witness ==
    /\ pc = "idle"
    /\ outcome = Succeeded
    /\ rerun_of.valid
    /\ Len(book_sales.rows) >= 2
    /\ dim_books.rows # <<>>

\* C3: first-write-wins: every row of dim_books stays, with its book_id and
\* its category, through every step, and a row that appears has a key no
\* row had
C3_FirstWriteWins ==
    [][ /\ RowsOf(dim_books) \subseteq RowsOf(dim_books')
        /\ \A r \in RowsOf(dim_books') \ RowsOf(dim_books) :
              \A old \in RowsOf(dim_books) : NaturalKey(old) # NaturalKey(r)
      ]_vars

\* a load has run whose batch carried, in another category, a book that an
\* earlier load had inserted
C3_Witness ==
    /\ pc = "analytics"
    /\ \E r \in RowsOf(dim_books) :
          /\ r.book_id < dim_seq - Len(unique_books)
          /\ \E i \in 1..Len(unique_books) :
                /\ NaturalKey(unique_books[i]) = NaturalKey(r)
                /\ unique_books[i]["category"] # r.category

\* C4: when the dimension load fails (the fact load of the run having
\* succeeded), book_sales holds the batch's rows after the failure and the
\* run ends in an error
C4_FactKeptOnDimensionFailure ==
    [][ (pc = "dimension_load" /\ stages' = stages)
            => /\ book_sales'.exists
               /\ book_sales'.rows = transformed_data.rows
               /\ pc' = "idle"
               /\ outcome' = Failed("dimension_load")
      ]_vars

C4_Witness ==
    /\ pc = "idle"
    /\ outcome = Failed("dimension_load")
    /\ book_sales.exists
    /\ book_sales.rows # <<>>
    /\ stages = <<"extract", "transform", "fact_load">>

\* C5: the stages run in the order extract, transform, fact load, dimension
\* load, analytics, each after the one before it completed; a step changes
\* book_sales only as the fact load, dim_books only as the dimension load
\* that follows a completed fact load, yields results only as the analytics
\* that follow a completed dimension load; and after a failure the run is
\* over
C5_StageOrder ==
    [][ /\ IsPrefix(stages', StageOrder)
        /\ book_sales' # book_sales => stages = SubSeq(StageOrder, 1, 2)
        /\ (dim_books' # dim_books \/ dim_seq' # dim_seq)
              => stages = SubSeq(StageOrder, 1, 3)
        /\ (results' # results /\ results' # <<>>) => stages = SubSeq(StageOrder, 1, 4)
        /\ outcome'.status = "error" => pc' = "idle"
        /\ outcome.status = "error" => runs' = runs + 1
      ]_vars

\* a second run's transformation failed over a store the first run filled
C5_Witness ==
    /\ pc = "idle"
    /\ runs = 2
    /\ outcome = Failed("transform")
    /\ book_sales.rows # <<>>
    /\ dim_books.rows # <<>>

\* a cell its column's coercion accepts as a value
Coercible(col, cell) ==
    IF col = "date" THEN cell.k = "date" /\ ValidDate(cell.y, cell.m, cell.d)
    ELSE IF col \in {"price", "units_sold", "rating"} THEN cell.k = "num"
    ELSE cell.k = "text"

RECURSIVE Survivors(_)
\* the rows all of whose cells are values, in their order
Survivors(rows) ==
    IF rows = <<>> THEN <<>>
    ELSE IF \A c \in DOMAIN Head(rows) : Coercible(c, Head(rows)[c])
         THEN <<Head(rows)>> \o Survivors(Tail(rows))
         ELSE Survivors(Tail(rows))

\* C6: on a frame with all its columns transform_data does not fail, whatever
\* the values of its rows: it returns the rows without a missing or
\* unparseable value, in their order, and no more rows than it was given
C6_BadValuesAreDropped ==
    [][ (pc = "transform" /\ SourceColumns \subseteq raw_data.cols)
            => /\ outcome'.status # "error"
               /\ Len(transformed_data'.rows) <= Len(raw_data.rows)
               /\ transformed_data'.rows =
                     [i \in 1..Len(Survivors(raw_data.rows)) |->
                         Enrich(Survivors(raw_data.rows)[i])]
      ]_vars

\* C7: unique_books holds one candidate for a (title, author), with the
\* category of the first row of the batch that has this key
C7_CandidatesUniqueByKey ==
    /\ \A i, j \in 1..Len(unique_books) :
          i # j => NaturalKey(unique_books[i]) # NaturalKey(unique_books[j])
    /\ \A i \in 1..Len(unique_books) :
          LET first == CHOOSE k \in 1..Len(transformed_data.rows) :
                          /\ NaturalKey(transformed_data.rows[k]) = NaturalKey(unique_books[i])
                          /\ \A m \in 1..(k - 1) :
                                NaturalKey(transformed_data.rows[m]) # NaturalKey(unique_books[i])
          IN  unique_books[i]["category"] = transformed_data.rows[first]["category"]

\* C8: every row transform_data returned and every row of book_sales has
\* revenue = price * units_sold
C8_RevenueIsProduct ==
    \A r \in RowsOf(transformed_data) \cup RowsOf(book_sales) :
        r["revenue"] = r["price"] * r["units_sold"]

C8_Witness ==
    /\ pc = "idle"
    /\ outcome = Succeeded
    /\ \E r \in RowsOf(book_sales) : r["price"] = 5 /\ r["revenue"] = 5
    /\ \E r \in RowsOf(book_sales) : r["price"] = 3 /\ r["revenue"] = 6

ResultOf(name) == results[CHOOSE i \in 1..Len(results) : results[i].name = name].rows

RECURSIVE TotalOf(_, _, _)
\* the sum of col over the rows of the title
TotalOf(rows, ttl, col) ==
    IF rows = <<>> THEN 0
    ELSE (IF Head(rows)["title"] = ttl THEN Head(rows)[col] ELSE 0)
         + TotalOf(Tail(rows), ttl, col)

TitlesOf(rows) == {rows[i]["title"] : i \in 1..Len(rows)}

\* C9: top_selling_books has a row for a title of book_sales, once, with the
\* title's sums of units_sold and revenue; at most 5 rows, and 5 when there
\* are as many titles; by total units sold non-increasing; and no title left
\* out sold more than one that is in
C9_TopSellingBooks ==
    results # <<>> =>
        LET top == ResultOf("top_selling_books")
            rows == book_sales.rows
        IN  /\ \A i \in 1..Len(top) :
                  /\ top[i].title \in TitlesOf(rows)
                  /\ top[i].total_units_sold = TotalOf(rows, top[i].title, "units_sold")
                  /\ top[i].total_revenue = TotalOf(rows, top[i].title, "revenue")
            /\ \A i, j \in 1..Len(top) : i # j => top[i].title # top[j].title
            /\ Len(top) <= 5
            /\ Len(top) = (IF Cardinality(TitlesOf(rows)) < 5
                           THEN Cardinality(TitlesOf(rows)) ELSE 5)
            /\ \A i, j \in 1..Len(top) :
                  i < j => top[i].total_units_sold >= top[j].total_units_sold
            /\ \A t \in TitlesOf(rows) \ {top[i].title : i \in 1..Len(top)} :
                  \A i \in 1..Len(top) :
                      TotalOf(rows, t, "units_sold") <= top[i].total_units_sold

\* six titles, one of them sold twice, and five rows of unequal totals
C9_Witness ==
    /\ results # <<>>
    /\ Cardinality(TitlesOf(book_sales.rows)) = 6
    /\ Len(book_sales.rows) = 7
    /\ Len(ResultOf("top_selling_books")) = 5
    /\ ResultOf("top_selling_books")[1].total_units_sold
          > ResultOf("top_selling_books")[5].total_units_sold

\* C10: run_analytics leaves book_sales and dim_books as they are, reads
\* book_sales only, and returns the four results under total_revenue,
\* top_selling_books, category_performance, daily_sales_trend, in this order
C10_AnalyticsReadOnly ==
    [][ pc = "analytics"
            => /\ book_sales' = book_sales
               /\ dim_books' = dim_books
               /\ reads' \subseteq {"book_sales"}
               /\ outcome' = Succeeded =>
                     [i \in 1..Len(results') |-> results'[i].name]
                        = <<"total_revenue", "top_selling_books",
                            "category_performance", "daily_sales_trend">>
      ]_vars

C10_Witness ==
    /\ pc = "idle"
    /\ outcome = Succeeded
    /\ Len(results) = 4
    /\ reads = {"book_sales"}
    /\ book_sales.rows # <<>>
    /\ dim_books.rows # <<>>

====
